---- MODULE Spec2Model ----
(***************************************************************************)
(* Per-stream loudness normalisation planning of ffmpeg_normalize          *)
(* (src/ffmpeg_normalize/_streams.py, class AudioStream): parsing of the   *)
(* first-pass measurements, their validation, and the second-pass filter   *)
(* options derived from them.                                              *)
(***************************************************************************)
EXTENDS Integers, Sequences, FiniteSets, TLC

VARIABLES
    ffmpeg_normalize,     \* the settings object (the targets), which the stream reaches
                          \* as self.media_file.ffmpeg_normalize and self.ffmpeg_normalize
    loudness_statistics,  \* AudioStream.loudness_statistics: ebu, mean, max
    op,                   \* the method of AudioStream that ran last
    loudnorm_output,      \* <<the engine's output in the loudnorm first pass>>, <<>> before it ran
    raised,               \* the exception class it raised, "" when it returned
    ret,                  \* <<value>> when it returned a value, <<>> otherwise
    log                   \* the warnings it logged, in order

vars == <<ffmpeg_normalize, loudness_statistics, op, loudnorm_output, raised, ret, log>>

(***************************************************************************)
(* Bounds of the model.                                                    *)
(***************************************************************************)
\* longest engine output, in lines, given to the EBU line scan
MaxLines == 4
\* largest magnitude of a level (dB) read by the peak/RMS scan or set as target
MaxDb == 3

(***************************************************************************)
(* Python floats: finite numbers (whole dB here), the two infinities, NaN. *)
(***************************************************************************)
Fin(n) == [t |-> "fin", v |-> n]
NegInf == [t |-> "ninf", v |-> 0]
PosInf == [t |-> "pinf", v |-> 0]
NaN == [t |-> "nan", v |-> 0]

IsFinite(a) == a.t = "fin"

\* a == b on floats: NaN equals nothing, itself included
FloatEq(a, b) == a.t # "nan" /\ b.t # "nan" /\ a = b

\* a < b on floats: every comparison with NaN is false
FloatLt(a, b) ==
    /\ a.t # "nan"
    /\ b.t # "nan"
    /\ \/ a.t = "ninf" /\ b.t # "ninf"
       \/ a.t = "fin" /\ b.t = "pinf"
       \/ a.t = "fin" /\ b.t = "fin" /\ a.v < b.v

FloatGt(a, b) == FloatLt(b, a)

\* min(a, b) of Python: the first argument unless the second is smaller
PyMin(a, b) == IF FloatLt(b, a) THEN b ELSE a

\* max(a, b) of Python: the first argument unless the second is larger
PyMax(a, b) == IF FloatGt(b, a) THEN b ELSE a

\* a + b on floats (IEEE 754: inf + -inf is NaN)
FloatAdd(a, b) ==
    IF a.t = "nan" \/ b.t = "nan" THEN NaN
    ELSE IF a.t = "fin" /\ b.t = "fin" THEN Fin(a.v + b.v)
    ELSE IF a.t = "fin" THEN b
    ELSE IF b.t = "fin" THEN a
    ELSE IF a.t = b.t THEN a
    ELSE NaN

FloatNeg(a) ==
    IF a.t = "fin" THEN Fin(0 - a.v)
    ELSE IF a.t = "ninf" THEN PosInf
    ELSE IF a.t = "pinf" THEN NegInf
    ELSE NaN

\* a - b on floats
FloatSub(a, b) == FloatAdd(a, FloatNeg(b))

(***************************************************************************)
(* float(x) of Python on a decoded JSON value.  A JSON value is a number   *)
(* (json.loads also reads the literals Infinity, -Infinity and NaN), a     *)
(* string, or null.                                                        *)
(***************************************************************************)
JNum(f) == [j |-> "num", s |-> "", f |-> f]
JStr(s) == [j |-> "str", s |-> s, f |-> Fin(0)]
JNull == [j |-> "null", s |-> "", f |-> Fin(0)]

\* the decimal texts the model writes into engine output, with their values
Decimals ==
    {<<"-120", -120>>, <<"-99", -99>>, <<"-33", -33>>, <<"-23", -23>>, <<"-9", -9>>,
     <<"-8", -8>>, <<"-7", -7>>, <<"-6", -6>>, <<"-5", -5>>, <<"-4", -4>>,
     <<"-3", -3>>, <<"-2", -2>>, <<"-1", -1>>, <<"0", 0>>, <<"1", 1>>,
     <<"2", 2>>, <<"3", 3>>, <<"4", 4>>, <<"5", 5>>, <<"6", 6>>,
     <<"7", 7>>, <<"8", 8>>, <<"9", 9>>, <<"12", 12>>, <<"150", 150>>}

NumeralText(n) == (CHOOSE d \in Decimals : d[2] = n)[1]

\* whether float(s) returns for a string s (otherwise it raises ValueError)
IsFloatText(s) == s \in {"-inf", "inf", "nan"} \/ \E d \in Decimals : d[1] = s

\* float(s) for a string s that float() accepts
FloatOfText(s) ==
    CASE s = "-inf" -> NegInf
      [] s = "inf" -> PosInf
      [] s = "nan" -> NaN
      [] OTHER -> Fin((CHOOSE d \in Decimals : d[1] = s)[2])

\* whether float(x) returns (it raises TypeError on null, ValueError on other text)
CanFloat(x) == x.j = "num" \/ (x.j = "str" /\ IsFloatText(x.s))

PyFloat(x) == IF x.j = "num" THEN x.f ELSE FloatOfText(x.s)

(***************************************************************************)
(* Engine output.  A line is a sequence of chunks of text, so that         *)
(* "begins with" and "is exactly" differ; FIELDS stands for the members    *)
(* `"input_i" : ..., ...` of the report the engine printed.                *)
(***************************************************************************)
HeaderMarker == "[Parsed_loudnorm"
FIELDS == "<members>"
NESTED == ", \"extra\" : {\"a\" : 1"

HeaderLine == <<HeaderMarker, "_0 @ 0x55d1]">>
OpenLine == <<"{">>
FieldsLine == <<FIELDS>>
FieldsNestedLine == <<FIELDS, NESTED>>
CloseLine == <<"}">>
CloseCrLine == <<"}", "\r">>
CloseNestedLine == <<"}", "}">>
CloseCommaLine == <<"}", ",">>
ProgressLine == <<"size=N/A time=00:00:01">>

LineKinds ==
    {HeaderLine, OpenLine, FieldsLine, FieldsNestedLine, CloseLine, CloseCrLine,
     CloseNestedLine, CloseCommaLine, ProgressLine}

Whitespace == {" ", "\r", "\t"}

\* str.startswith
StartsWith(line, prefix) == Len(line) > 0 /\ line[1] = prefix

\* str.strip: leading and trailing whitespace removed
RECURSIVE Strip(_)
Strip(line) ==
    IF line = <<>> THEN line
    ELSE IF Head(line) \in Whitespace THEN Strip(Tail(line))
    ELSE IF line[Len(line)] \in Whitespace THEN Strip(SubSeq(line, 1, Len(line) - 1))
    ELSE line

\* "\n".join(lines): the chunks of the lines, in order (a line break is
\* insignificant whitespace to the JSON decoder)
RECURSIVE Join(_)
Join(lines) == IF lines = <<>> THEN <<>> ELSE Head(lines) \o Join(Tail(lines))

\* the JSON object {}
EmptyObject == [k \in {} |-> JNull]

\* json.loads(text) when the engine printed the members `members`:
\* the decoded object, or a JSONDecodeError
JsonLoads(text, members) ==
    IF text = <<"{", "}">> THEN [raised |-> "", obj |-> EmptyObject]
    ELSE IF text \in {<<"{", FIELDS, "}">>, <<"{", FIELDS, NESTED, "}", "}">>}
        THEN [raised |-> "", obj |-> members]
    ELSE [raised |-> "JSONDecodeError", obj |-> EmptyObject]

Keys ==
    <<"input_i", "input_tp", "input_lra", "input_thresh", "output_i", "output_tp",
      "output_lra", "output_thresh", "target_offset">>

KeySet == {Keys[i] : i \in 1 .. Len(Keys)}

\* the line scan of _parse_loudnorm_output from line i on (lines are numbered
\* from 1 here, so Python's index + 1 is i); 0 is Python's False
RECURSIVE ScanLines(_, _, _)
ScanLines(output_lines, i, loudnorm_start) ==
    IF i > Len(output_lines)
        THEN [loudnorm_start |-> loudnorm_start, loudnorm_end |-> 0]
    ELSE IF StartsWith(output_lines[i], HeaderMarker)
        THEN ScanLines(output_lines, i + 1, i)
    ELSE IF loudnorm_start # 0 /\ StartsWith(output_lines[i], "}")
        THEN [loudnorm_start |-> loudnorm_start, loudnorm_end |-> i]
    ELSE ScanLines(output_lines, i + 1, loudnorm_start)

\* output_lines[loudnorm_start:loudnorm_end]
JsonSlice(output_lines) ==
    LET scan == ScanLines(output_lines, 1, 0)
    IN SubSeq(output_lines, scan.loudnorm_start + 1, scan.loudnorm_end)

\* the loop over the nine keys: infinities become the sentinels, the rest floats
ValidateField(x) ==
    IF FloatEq(PyFloat(x), NegInf) THEN Fin(-99)
    ELSE IF FloatEq(PyFloat(x), PosInf) THEN Fin(0)
    ELSE PyFloat(x)

\* AudioStream._parse_loudnorm_output; members other than the nine keys stay
\* in the returned object and are read by nothing
_parse_loudnorm_output(output_lines, members) ==
    LET scan == ScanLines(output_lines, 1, 0)
        decoded == JsonLoads(Join(JsonSlice(output_lines)), members)
    IN IF ~(scan.loudnorm_start # 0 /\ scan.loudnorm_end # 0)
           THEN [raised |-> "FFmpegNormalizeError", msg |-> "no loudnorm-related output found",
                 stats |-> <<>>]
       ELSE IF decoded.raised # ""
               \/ \E i \in 1 .. Len(Keys) :
                      Keys[i] \notin DOMAIN decoded.obj \/ ~CanFloat(decoded.obj[Keys[i]])
           THEN [raised |-> "FFmpegNormalizeError", msg |-> "wrong JSON format in string",
                 stats |-> <<>>]
       ELSE [raised |-> "", msg |-> "",
             stats |-> [k \in KeySet |-> ValidateField(decoded.obj[k])]]

(***************************************************************************)
(* Warnings.                                                               *)
(***************************************************************************)
Warning(w, name, number, result) ==
    [w |-> w, name |-> name, number |-> number, result |-> result]

Logged(w) == \E i \in 1 .. Len(log) : log[i].w = w

LoggedFor(w, name) == \E i \in 1 .. Len(log) : log[i].w = w /\ log[i].name = name

\* AudioStream._constrain, for a name that is given: the result and what it logs
_constrain(number, min_range, max_range, name) ==
    LET result == PyMax(PyMin(number, max_range), min_range)
    IN IF FloatGt(min_range, max_range)
           THEN [raised |-> "ValueError", result |-> number, log |-> <<>>]
       ELSE [raised |-> "",
             result |-> result,
             log |-> IF ~FloatEq(result, number)
                         THEN <<Warning("constrain", name, number, result)>>
                         ELSE <<>>]

(***************************************************************************)
(* The state after construction (AudioStream.__init__) and the settings    *)
(* the stream is constructed with.                                         *)
(***************************************************************************)
Settings(normalization_type, target_level, loudness_range_target, keep, dynamic, dual_mono, sample_rate) ==
    [normalization_type |-> normalization_type,
     target_level |-> Fin(target_level),
     loudness_range_target |-> Fin(loudness_range_target),
     true_peak |-> Fin(-2),
     offset |-> Fin(0),
     dual_mono |-> dual_mono,
     keep_loudness_range_target |-> keep,
     dynamic |-> dynamic,
     sample_rate |-> sample_rate]

Constructed ==
    /\ loudness_statistics = [ebu |-> <<>>, mean |-> <<>>, max |-> <<>>]
    /\ op = "__init__"
    /\ raised = ""
    /\ ret = <<>>
    /\ log = <<>>

(***************************************************************************)
(* AudioStream.parse_loudnorm_stats on an engine output of the lines       *)
(* `output` in which the engine printed the members `members`.             *)
(***************************************************************************)
\* [line.strip() for line in output.split("\n")]
RECURSIVE StripLines(_)
StripLines(output) ==
    IF output = <<>> THEN <<>> ELSE <<Strip(Head(output))>> \o StripLines(Tail(output))

parse_loudnorm_stats(output, members) ==
    \E parsed \in {_parse_loudnorm_output(StripLines(output), members)} :
       /\ op' = "parse_loudnorm_stats"
       /\ loudnorm_output' = <<[lines |-> output, members |-> members]>>
       /\ raised' = parsed.raised
       /\ ret' = <<>>
       /\ log' = <<>>
       /\ loudness_statistics' =
              IF parsed.raised = ""
                  THEN [loudness_statistics EXCEPT !.ebu = <<parsed.stats>>]
                  ELSE loudness_statistics
       /\ UNCHANGED ffmpeg_normalize

(***************************************************************************)
(* AudioStream.get_second_pass_opts_ebu                                    *)
(***************************************************************************)
\* the guard left out
FirstPassNotRun_Omitted(statistics) == FALSE

\* the guard `not self.loudness_statistics["ebu"]`
FirstPassNotRun(statistics) == statistics.ebu = <<>>

\* a measured input loudness above zero is capped at 0, in the report itself
CapInputI(measured) ==
    IF FloatGt(measured.input_i, Fin(0)) THEN [measured EXCEPT !["input_i"] = Fin(0)]
    ELSE measured

\* the measured range taken whether or not keep_loudness_range_target is set
KeepLoudnessRange_Always(settings, stats) ==
    [settings EXCEPT !.loudness_range_target = stats.input_lra]

\* keep_loudness_range_target: the settings object takes the measured range
KeepLoudnessRange(settings, stats) ==
    IF settings.keep_loudness_range_target
        THEN [settings EXCEPT !.loudness_range_target = stats.input_lra]
        ELSE settings

\* the comparison made with the target range as it was before the keep override
RevertsToDynamic_BeforeKeep(settings, stats, will_use_dynamic_mode) ==
    /\ FloatLt(ffmpeg_normalize.loudness_range_target, stats.input_lra)
    /\ ~will_use_dynamic_mode

\* whether the planner reverts to dynamic mode (will_use_dynamic_mode turns True)
RevertsToDynamic(settings, stats, will_use_dynamic_mode) ==
    /\ FloatLt(settings.loudness_range_target, stats.input_lra)
    /\ ~will_use_dynamic_mode

\* the "linear" option
Linear(settings, will_use_dynamic_mode) == IF settings.dynamic THEN "false" ELSE "true"

\* the options dict of the second pass and the warnings its clamps log
SecondPassOpts(settings, stats, will_use_dynamic_mode) ==
    LET offset == _constrain(stats.target_offset, Fin(-99), Fin(99), "target_offset")
        measured_i == _constrain(stats.input_i, Fin(-99), Fin(0), "input_i")
        measured_lra == _constrain(stats.input_lra, Fin(0), Fin(99), "input_lra")
        measured_tp == _constrain(stats.input_tp, Fin(-99), Fin(99), "input_tp")
        measured_thresh == _constrain(stats.input_thresh, Fin(-99), Fin(0), "input_thresh")
    IN [opts |->
            [i |-> settings.target_level,
             lra |-> settings.loudness_range_target,
             tp |-> settings.true_peak,
             offset |-> offset.result,
             measured_i |-> measured_i.result,
             measured_lra |-> measured_lra.result,
             measured_tp |-> measured_tp.result,
             measured_thresh |-> measured_thresh.result,
             linear |-> Linear(settings, will_use_dynamic_mode),
             print_format |-> "json"]
            @@ (IF settings.dual_mono THEN [dual_mono |-> "true"] ELSE [k \in {} |-> ""]),
        log |-> offset.log \o measured_i.log \o measured_lra.log \o measured_tp.log
                \o measured_thresh.log]

get_second_pass_opts_ebu ==
    /\ op' = "get_second_pass_opts_ebu"
    /\ UNCHANGED loudnorm_output
    /\ IF FirstPassNotRun(loudness_statistics)
       THEN /\ raised' = "FFmpegNormalizeError"
            /\ ret' = <<>>
            /\ log' = <<>>
            /\ UNCHANGED <<ffmpeg_normalize, loudness_statistics>>
       ELSE IF loudness_statistics.ebu = <<>>
       THEN \* None["input_i"]
            /\ raised' = "TypeError"
            /\ ret' = <<>>
            /\ log' = <<>>
            /\ UNCHANGED <<ffmpeg_normalize, loudness_statistics>>
       ELSE LET measured == loudness_statistics.ebu[1]
                stats == CapInputI(measured)
                settings == KeepLoudnessRange(ffmpeg_normalize, stats)
                reverts == RevertsToDynamic(settings, stats, ffmpeg_normalize.dynamic)
                will_use_dynamic_mode == ffmpeg_normalize.dynamic \/ reverts
            IN \E built \in {SecondPassOpts(settings, stats, will_use_dynamic_mode)} :
               /\ raised' = ""
               /\ ret' = <<[filter |-> "loudnorm", opts |-> built.opts]>>
               /\ log' =
                      (IF stats # measured
                           THEN <<Warning("input_i_above_zero", "input_i",
                                          measured.input_i, Fin(0))>>
                           ELSE <<>>)
                      \o (IF reverts
                              THEN <<Warning("revert_to_dynamic", "input_lra",
                                             stats.input_lra,
                                             settings.loudness_range_target)>>
                              ELSE <<>>)
                      \o (IF will_use_dynamic_mode /\ settings.sample_rate = <<>>
                              THEN <<Warning("sample_rate_192k", "", Fin(0), Fin(0))>>
                              ELSE <<>>)
                      \o built.log
               /\ loudness_statistics' = [loudness_statistics EXCEPT !.ebu = <<stats>>]
               /\ ffmpeg_normalize' = settings

(***************************************************************************)
(* AudioStream.parse_astats on an engine output of the lines `output`;     *)
(* a line is a label and the text after it.                                *)
(***************************************************************************)
RmsLabel == "RMS level dB: "
PeakLabel == "Peak level dB: "

\* re.findall(label + "([\-\d\.]+)", output)
RECURSIVE FindAll(_, _)
FindAll(label, output) ==
    IF output = <<>> THEN <<>>
    ELSE (IF Head(output).label = label THEN <<Head(output).text>> ELSE <<>>)
         \o FindAll(label, Tail(output))

\* one statistic from its matches: the value, or the exception raised
ParseVolume(matches) ==
    IF matches = <<>> THEN [raised |-> "FFmpegNormalizeError", value |-> NaN]
    ELSE IF matches[1] = "-" THEN [raised |-> "", value |-> NegInf]
    ELSE IF IsFloatText(matches[1]) THEN [raised |-> "", value |-> FloatOfText(matches[1])]
    ELSE [raised |-> "ValueError", value |-> NaN]

parse_astats(output) ==
    \E mean \in {ParseVolume(FindAll(RmsLabel, output))},
       max \in {ParseVolume(FindAll(PeakLabel, output))} :
       /\ op' = "parse_astats"
       /\ UNCHANGED loudnorm_output
       /\ ret' = <<>>
       /\ log' = <<>>
       /\ raised' = IF mean.raised # "" THEN mean.raised ELSE max.raised
       /\ loudness_statistics' =
              IF mean.raised # "" THEN loudness_statistics
              ELSE IF max.raised # ""
                  THEN [loudness_statistics EXCEPT !.mean = <<mean.value>>]
              ELSE [loudness_statistics EXCEPT !.mean = <<mean.value>>,
                                               !.max = <<max.value>>]
       /\ UNCHANGED ffmpeg_normalize

(***************************************************************************)
(* AudioStream.get_second_pass_opts_peakrms                                *)
(***************************************************************************)
\* the gain: the value, or the exception raised (a statistic that is None
\* cannot be subtracted from a number)
Adjustment(normalization_type, target_level, statistics) ==
    IF normalization_type = "peak"
        THEN IF statistics.max = <<>> THEN [raised |-> "TypeError", value |-> NaN]
             ELSE [raised |-> "", value |-> FloatSub(target_level, statistics.max[1])]
    ELSE IF normalization_type = "rms"
        THEN IF statistics.mean = <<>> THEN [raised |-> "TypeError", value |-> NaN]
             ELSE [raised |-> "", value |-> FloatSub(target_level, statistics.mean[1])]
    ELSE [raised |-> "FFmpegNormalizeError", value |-> NaN]

\* the clipping check made with >= in place of >
WillClip_NonStrict(max, adjustment) == ~FloatLt(FloatAdd(max, adjustment), Fin(0))

\* the clipping check
WillClip(max, adjustment) == FloatGt(FloatAdd(max, adjustment), Fin(0))

get_second_pass_opts_peakrms ==
    \E adjustment \in
           {Adjustment(ffmpeg_normalize.normalization_type, ffmpeg_normalize.target_level,
                       loudness_statistics)} :
       /\ op' = "get_second_pass_opts_peakrms"
       /\ UNCHANGED loudnorm_output
       /\ IF adjustment.raised # ""
          THEN /\ raised' = adjustment.raised
               /\ ret' = <<>>
               /\ log' = <<>>
          ELSE IF loudness_statistics.max = <<>>
          THEN \* None + adjustment
               /\ raised' = "TypeError"
               /\ ret' = <<>>
               /\ log' = <<>>
          ELSE /\ raised' = ""
               /\ ret' = <<[filter |-> "volume", adjustment |-> adjustment.value]>>
               /\ log' =
                      IF WillClip(loudness_statistics.max[1], adjustment.value)
                          THEN <<Warning("clipping", "max", loudness_statistics.max[1],
                                         FloatAdd(loudness_statistics.max[1],
                                                  adjustment.value))>>
                          ELSE <<>>
       /\ UNCHANGED <<ffmpeg_normalize, loudness_statistics>>

(***************************************************************************)
(* Engine outputs and settings the specifications draw from.               *)
(***************************************************************************)
\* a report as the engine prints it: every value a string
EngineReport ==
    [k \in KeySet |->
        CASE k \in {"input_i", "output_i"} -> JStr("-23")
          [] k \in {"input_tp", "output_tp"} -> JStr("-2")
          [] k \in {"input_lra", "output_lra"} -> JStr("7")
          [] k \in {"input_thresh", "output_thresh"} -> JStr("-33")
          [] OTHER -> JStr("0")]

\* values a member of the report may take instead
FiniteValues == {-120, -99, -5, 0, 5, 9, 12, 150}

MemberValues ==
    {JNum(Fin(v)) : v \in FiniteValues}
    \cup {JNum(NegInf), JNum(PosInf), JNum(NaN)}
    \cup {JStr(NumeralText(v)) : v \in {-120, 9, 12, 150}}
    \cup {JStr("-inf"), JStr("inf"), JStr("nan"), JStr("N/A"), JNull}

Without(members, key) == [k \in (DOMAIN members) \ {key} |-> members[k]]

\* the engine's report with one member replaced or left out
AllReports ==
    {EngineReport}
    \cup {[EngineReport EXCEPT ![k] = x] : k \in KeySet, x \in MemberValues}
    \cup {Without(EngineReport, k) : k \in KeySet}

\* those of them the EBU path is run on: all that validate, and two that do not
Reports ==
    {r \in AllReports : \A k \in KeySet : k \in DOMAIN r /\ CanFloat(r[k])}
    \cup {Without(EngineReport, "input_lra"),
          [EngineReport EXCEPT !["target_offset"] = JNull]}

FewReports ==
    {EngineReport,
     Without(EngineReport, "input_lra"),
     [EngineReport EXCEPT !["input_tp"] = JStr("N/A")],
     [EngineReport EXCEPT !["input_lra"] = JStr("9")],
     [EngineReport EXCEPT !["input_lra"] = JStr("12")]}

\* the engine's usual output around a report
UsualOutput == <<ProgressLine, HeaderLine, <<"\t", "{">>, <<"\t", FIELDS>>, CloseCrLine>>

Outputs == UNION {[1 .. n -> LineKinds] : n \in 0 .. MaxLines}

AstatsTexts == {"-", "1.2.3"} \cup {NumeralText(n) : n \in (0 - MaxDb) .. MaxDb}

AstatsLines ==
    {[label |-> l, text |-> t] : l \in {RmsLabel, PeakLabel}, t \in AstatsTexts}
    \cup {[label |-> "Number of samples: ", text |-> "2"]}

AstatsOutputs == UNION {[1 .. n -> AstatsLines] : n \in 0 .. 2}

FewAstatsOutputs ==
    {<<>>,
     <<[label |-> RmsLabel, text |-> "-2"]>>,
     <<[label |-> RmsLabel, text |-> "-2"], [label |-> PeakLabel, text |-> "-1"]>>,
     <<[label |-> RmsLabel, text |-> "-"], [label |-> PeakLabel, text |-> "1"]>>}

EbuSettings ==
    {Settings("ebu", -23, lra, keep, dynamic, rest[1], rest[2]) :
        lra \in {7, 12}, keep \in BOOLEAN, dynamic \in BOOLEAN,
        rest \in {<<FALSE, <<>>>>, <<TRUE, <<48000>>>>}}

PeakSettings ==
    {Settings(type, level, 7, FALSE, FALSE, FALSE, <<>>) :
        type \in {"peak", "rms", "ebu"}, level \in {-6} \cup (0 - MaxDb) .. MaxDb}

(***************************************************************************)
(* Specifications.                                                         *)
(***************************************************************************)
\* the EBU path: reports of every kind in the engine's usual output
InitEbu == ffmpeg_normalize \in EbuSettings /\ Constructed /\ loudnorm_output = <<>>

NextEbu ==
    \/ \E members \in Reports : parse_loudnorm_stats(UsualOutput, members)
    \/ get_second_pass_opts_ebu

SpecEbu == InitEbu /\ [][NextEbu]_vars

\* the EBU line scan: the engine has printed an output of any shape around
\* one of a few reports, and the stream parses it
InitParse ==
    /\ ffmpeg_normalize = Settings("ebu", -23, 7, FALSE, FALSE, FALSE, <<>>)
    /\ Constructed
    /\ loudnorm_output \in
           {<<[lines |-> output, members |-> members]>> :
               output \in Outputs, members \in FewReports}

NextParse ==
    \/ parse_loudnorm_stats(loudnorm_output[1].lines, loudnorm_output[1].members)
    \/ get_second_pass_opts_ebu

SpecParse == InitParse /\ [][NextParse]_vars

\* the peak/RMS path
InitPeak == ffmpeg_normalize \in PeakSettings /\ Constructed /\ loudnorm_output = <<>>

NextPeak ==
    \/ \E output \in AstatsOutputs : parse_astats(output)
    \/ get_second_pass_opts_peakrms

SpecPeak == InitPeak /\ [][NextPeak]_vars

\* every method, on a few outputs of each kind
Init ==
    /\ ffmpeg_normalize \in EbuSettings \cup PeakSettings
    /\ Constructed
    /\ loudnorm_output = <<>>

Next ==
    \/ \E members \in FewReports : parse_loudnorm_stats(UsualOutput, members)
    \/ get_second_pass_opts_ebu
    \/ \E output \in FewAstatsOutputs : parse_astats(output)
    \/ get_second_pass_opts_peakrms

Spec == Init /\ [][Next]_vars

(***************************************************************************)
(* Properties.                                                             *)
(***************************************************************************)
EbuReturned == op = "get_second_pass_opts_ebu" /\ raised = ""
PeakrmsCalled == op = "get_second_pass_opts_peakrms"
Parsed == op = "parse_loudnorm_stats"
Opts == ret[1].opts
Ebu == loudness_statistics.ebu[1]

\* a <= x <= b for whole a, b: false of the infinities and of NaN
InRange(x, a, b) == IsFinite(x) /\ a <= x.v /\ x.v <= b

\* max(min(x, b), a) over the extended reals
Clamped(x, a, b) ==
    IF x.t = "ninf" THEN Fin(a)
    ELSE IF x.t = "pinf" THEN Fin(b)
    ELSE IF x.v > b THEN Fin(b)
    ELSE IF x.v < a THEN Fin(a)
    ELSE x

\* C1: whenever the EBU planner returns, linear is "false" exactly when
\* dynamic mode is forced or the effective target loudness range is below
\* the measured input loudness range, and "true" otherwise.
C1_LinearNegatesFinalDynamic ==
    EbuReturned =>
        LET final ==
                \/ ffmpeg_normalize.dynamic
                \/ FloatLt(ffmpeg_normalize.loudness_range_target, Ebu.input_lra)
        IN Opts.linear = (IF final THEN "false" ELSE "true")

\* C2 as claimed: no call of the EBU planner or of the adjustment calculator
\* changes any of the normalization targets.
C2_TargetsNeverMutated ==
    [][op' \in {"get_second_pass_opts_ebu", "get_second_pass_opts_peakrms"}
          => ffmpeg_normalize' = ffmpeg_normalize]_vars

\* C2 as amended: a planner call changes no target other than the target
\* loudness range, and that one only in an EBU planner call that returns with
\* keep-input-loudness-range set, where it becomes the measured input range.
C2_OnlyKeptRangeMutated ==
    [][op' \in {"get_second_pass_opts_ebu", "get_second_pass_opts_peakrms"}
          => /\ ffmpeg_normalize' =
                    [ffmpeg_normalize EXCEPT
                         !.loudness_range_target =
                             ffmpeg_normalize'.loudness_range_target]
             /\ IF /\ op' = "get_second_pass_opts_ebu"
                   /\ raised' = ""
                   /\ ffmpeg_normalize.keep_loudness_range_target
                THEN ffmpeg_normalize'.loudness_range_target =
                         loudness_statistics.ebu[1].input_lra
                ELSE ffmpeg_normalize'.loudness_range_target =
                         ffmpeg_normalize.loudness_range_target]_vars

\* C2 witness: an EBU planner call with the keep flag set has returned and the
\* target loudness range is the measured 9, which no stream was constructed with.
C2_Witness ==
    /\ EbuReturned
    /\ ffmpeg_normalize.keep_loudness_range_target
    /\ ffmpeg_normalize.loudness_range_target = Fin(9)
    /\ Ebu.input_lra = Fin(9)

\* C3: when keep-input-loudness-range is set and the EBU planner returns, the
\* emitted lra is the measured input range, and unless dynamic mode is forced
\* the call does not revert to dynamic mode.
C3_KeepRangeOverridesBeforeComparison ==
    (EbuReturned /\ ffmpeg_normalize.keep_loudness_range_target)
        => /\ Opts.lra = Ebu.input_lra
           /\ ~ffmpeg_normalize.dynamic => ~Logged("revert_to_dynamic")

\* C3 witness: keep set, dynamic not forced, measured range 9, and the planner
\* returned lra = 9 without reverting to dynamic mode.
C3_Witness ==
    /\ EbuReturned
    /\ ffmpeg_normalize.keep_loudness_range_target
    /\ ~ffmpeg_normalize.dynamic
    /\ Ebu.input_lra = Fin(9)
    /\ Opts.lra = Fin(9)
    /\ ~Logged("revert_to_dynamic")

\* C4: whenever the EBU planner returns, each of offset, measured_i,
\* measured_lra, measured_tp and measured_thresh lies in its range, is the
\* measured value clamped into it, and a clamp warning is logged for it exactly
\* when the clamp changed the value.
C4_MeasuredParametersClamped ==
    EbuReturned =>
        \A f \in {<<"offset", "target_offset", -99, 99>>,
                  <<"measured_i", "input_i", -99, 0>>,
                  <<"measured_lra", "input_lra", 0, 99>>,
                  <<"measured_tp", "input_tp", -99, 99>>,
                  <<"measured_thresh", "input_thresh", -99, 0>>} :
            /\ InRange(Opts[f[1]], f[3], f[4])
            /\ Opts[f[1]] = Clamped(Ebu[f[2]], f[3], f[4])
            /\ LoggedFor("constrain", f[2]) <=> Opts[f[1]] # Ebu[f[2]]

\* C5: after a successful parse every one of the nine fields is a finite
\* number: -99 where the raw value is negative infinity, 0 where it is positive
\* infinity, and the parsed float otherwise.
C5_ValidatedFieldsFinite ==
    (Parsed /\ raised = "") =>
        \A k \in KeySet :
            LET x == PyFloat(loudnorm_output[1].members[k])
            IN /\ IsFinite(Ebu[k])
               /\ x.t = "ninf" => Ebu[k] = Fin(-99)
               /\ x.t = "pinf" => Ebu[k] = Fin(0)
               /\ x.t \notin {"ninf", "pinf"} => Ebu[k] = x

\* C6: an EBU planner call on a stream whose ebu statistic is unset raises the
\* planner error, returns nothing, logs nothing and leaves the statistics and
\* the targets as they were.
C6_PlannerBeforeMeasurementRaises ==
    [][(op' = "get_second_pass_opts_ebu" /\ loudness_statistics.ebu = <<>>)
          => /\ raised' = "FFmpegNormalizeError"
             /\ ret' = <<>>
             /\ log' = <<>>
             /\ loudness_statistics' = loudness_statistics
             /\ ffmpeg_normalize' = ffmpeg_normalize]_vars

\* C6 witness: the planner has raised on a stream with keep set whose only
\* parse attempt failed.
C6_Witness ==
    /\ op = "get_second_pass_opts_ebu"
    /\ raised = "FFmpegNormalizeError"
    /\ loudness_statistics.ebu = <<>>
    /\ loudnorm_output # <<>>
    /\ ffmpeg_normalize.keep_loudness_range_target

\* the scan as specified: the first header line, and the first line after it
\* that is exactly a closing brace (0 when there is none)
FirstHeader(lines) ==
    IF \E i \in 1 .. Len(lines) : StartsWith(lines[i], HeaderMarker)
        THEN CHOOSE i \in 1 .. Len(lines) :
                 /\ StartsWith(lines[i], HeaderMarker)
                 /\ \A j \in 1 .. i - 1 : ~StartsWith(lines[j], HeaderMarker)
        ELSE 0

FirstClosingAfter(lines, h) ==
    IF h # 0 /\ \E i \in h + 1 .. Len(lines) : lines[i] = <<"}">>
        THEN CHOOSE i \in h + 1 .. Len(lines) :
                 /\ lines[i] = <<"}">>
                 /\ \A j \in h + 1 .. i - 1 : lines[j] # <<"}">>
        ELSE 0

SpecifiedSlice(lines) ==
    SubSeq(lines, FirstHeader(lines) + 1, FirstClosingAfter(lines, FirstHeader(lines)))

\* C7: a parse of an output with no header line, or no closing line after the
\* header, or delimited text that is not well-formed JSON, or a missing field,
\* or a field that is no float, raises the measurement parse error and leaves
\* the ebu statistic as it was.
C7_ParseFailsNeverDefaults ==
    [][op' = "parse_loudnorm_stats"
          => LET lines == StripLines(loudnorm_output'[1].lines)
                 members == loudnorm_output'[1].members
                 h == FirstHeader(lines)
                 decoded == JsonLoads(Join(SpecifiedSlice(lines)), members)
             IN (\/ h = 0
                 \/ FirstClosingAfter(lines, h) = 0
                 \/ decoded.raised # ""
                 \/ \E k \in KeySet : k \notin DOMAIN decoded.obj
                 \/ \E k \in KeySet : k \in DOMAIN decoded.obj /\ ~CanFloat(decoded.obj[k]))
                => /\ raised' = "FFmpegNormalizeError"
                   /\ loudness_statistics' = loudness_statistics]_vars

\* C8: with both statistics set, the adjustment calculator returns
\* target - max in peak mode and target - mean in rms mode and raises the
\* planner error in any other mode; the clipping warning is logged exactly
\* when max + gain > 0, and the gain returned is the same either way.
C8_AdjustmentAndClipping ==
    (PeakrmsCalled /\ loudness_statistics.mean # <<>> /\ loudness_statistics.max # <<>>)
        => LET type == ffmpeg_normalize.normalization_type
               max == loudness_statistics.max[1]
               mean == loudness_statistics.mean[1]
               gain == FloatSub(ffmpeg_normalize.target_level,
                                IF type = "peak" THEN max ELSE mean)
           IN IF type \in {"peak", "rms"}
              THEN /\ raised = ""
                   /\ ret = <<[filter |-> "volume", adjustment |-> gain]>>
                   /\ Logged("clipping") <=> FloatGt(FloatAdd(max, gain), Fin(0))
              ELSE raised = "FFmpegNormalizeError" /\ ret = <<>> /\ log = <<>>

\* C8 witness: rms mode, max + gain is exactly 0, the gain is returned and no
\* clipping warning is logged.
C8_Witness ==
    /\ PeakrmsCalled
    /\ ffmpeg_normalize.normalization_type = "rms"
    /\ loudness_statistics.mean = <<Fin(-3)>>
    /\ loudness_statistics.max = <<Fin(-1)>>
    /\ ret = <<[filter |-> "volume", adjustment |-> Fin(1)]>>
    /\ log = <<>>

\* C9: an adjustment calculator call in peak or rms mode on a stream whose
\* mean or max statistic is unset raises the planner error and returns no gain.
C9_PeakrmsBeforeMeasurementRaisesPlannerError ==
    (/\ PeakrmsCalled
     /\ ffmpeg_normalize.normalization_type \in {"peak", "rms"}
     /\ (loudness_statistics.mean = <<>> \/ loudness_statistics.max = <<>>))
        => raised = "FFmpegNormalizeError" /\ ret = <<>>

\* C10: the scan finds a JSON slice exactly when there is a header line with a
\* line that is exactly a closing brace after it, and the slice then runs from
\* the line after the first header line to the first such closing line.
C10_SliceFromFirstHeaderToExactClosingBrace ==
    Parsed =>
        LET lines == StripLines(loudnorm_output[1].lines)
            scan == ScanLines(lines, 1, 0)
            found == scan.loudnorm_start # 0 /\ scan.loudnorm_end # 0
        IN /\ found <=> FirstClosingAfter(lines, FirstHeader(lines)) # 0
           /\ found => JsonSlice(lines) = SpecifiedSlice(lines)

(***************************************************************************)
(* What does hold of the code where C4, C5, C7 and C10 fail.               *)
(***************************************************************************)
NoNaNMeasured == \A k \in KeySet : Ebu[k].t # "nan"

\* the clamps of C4, for reports that hold no NaN
ClampedWhenNoNaN == (EbuReturned /\ NoNaNMeasured) => C4_MeasuredParametersClamped

\* the validation of C5, for reports that hold no NaN
FiniteWhenNoNaN == (Parsed /\ raised = "" /\ NoNaNMeasured) => C5_ValidatedFieldsFinite

\* the failures of C7, with the closing line and the slice as the code finds
\* them: the first line after the last header that begins with a closing brace
ParseFailsAsScanned ==
    [][op' = "parse_loudnorm_stats"
          => LET lines == StripLines(loudnorm_output'[1].lines)
                 members == loudnorm_output'[1].members
                 scan == ScanLines(lines, 1, 0)
                 decoded == JsonLoads(Join(JsonSlice(lines)), members)
                 bad ==
                     \/ scan.loudnorm_start = 0
                     \/ scan.loudnorm_end = 0
                     \/ decoded.raised # ""
                     \/ \E k \in KeySet : k \notin DOMAIN decoded.obj
                     \/ \E k \in KeySet :
                            k \in DOMAIN decoded.obj /\ ~CanFloat(decoded.obj[k])
             IN IF bad
                THEN /\ raised' = "FFmpegNormalizeError"
                     /\ loudness_statistics' = loudness_statistics
                ELSE raised' = "" /\ loudness_statistics'.ebu # <<>>]_vars

\* the slice of C10, for outputs with one header line at most and no line
\* that begins with a closing brace and goes on
SliceWhenScanUnambiguous ==
    LET lines == StripLines(loudnorm_output[1].lines)
    IN (/\ Parsed
        /\ \A i \in 1 .. Len(lines) :
               /\ StartsWith(lines[i], HeaderMarker) => i = FirstHeader(lines)
               /\ StartsWith(lines[i], "}") => lines[i] = <<"}">>)
           => C10_SliceFromFirstHeaderToExactClosingBrace

====
